---- MODULE Spec2Model ----
(***************************************************************************)
(* Model of the pipe-network scripts Ex2_3.py and Ex2_3_1.py: the Pipe /   *)
(* Node / PipeNetwork object graph, the six PipeNetwork operations and     *)
(* main().                                                                 *)
(*                                                                         *)
(* Numbers.  Python floats are modelled in fixed point, one scale per      *)
(* quantity, every operation rounding toward zero:                         *)
(*   flow_rate, velocity, f, head_loss : millionths (Micro)                *)
(*   Re                                : hundredths (Centi)                *)
(*   rho * velocity**2                 : thousandths (Milli)               *)
(*   diameter, length                  : inches, integers as in the code   *)
(*   roughness                         : 1e-5 ft                           *)
(*   pressure                          : psi, integers as in the code      *)
(* An unbound Python local is the empty set, a bound one the set {value}.  *)
(***************************************************************************)
EXTENDS Integers, Sequences, FiniteSets, TLC

\* ------------------------------------------------------------- scales
Centi == 10 * 10
Milli == 10 * Centi
Micro == Milli * Milli

\* ---------------------------------------------------------- constants
\* g = 32.2 (tenths)
GE1 == 322
\* rho = 62.3 (tenths)
RhoE1 == 623
\* mu = 20.50e-6 = MuNum / MuDen
MuNum == 205
MuDen == 10000000
\* inch_to_ft = 1 / InchPerFt
InchPerFt == 12
\* np.pi in millionths
PiMicro == 3141593
\* the laminar bound of `if Re < 2000`
ReLaminar == 2000
\* the numerator of `f = 64 / Re`
LaminarNum == 64
\* `f = 0.02` in millionths
FTurbulent == 20000
\* Node.__init__'s default pressure
DefaultPressure == 80

\* ------------------------------------------------------- arithmetic
Abs(x) == IF x < 0 THEN -x ELSE x

Sgn(x) == IF x < 0 THEN -1 ELSE IF x > 0 THEN 1 ELSE 0

\* <<q, r>> with x * y = q * c + r and 0 <= r < c, for 0 <= x < c, y >= 0,
\* by doubling, so that no intermediate exceeds 2 * c.
RECURSIVE QR(_, _, _)
QR(x, y, c) ==
    IF y = 0 THEN <<0, 0>>
    ELSE LET h  == QR(x, y \div 2, c)
             q2 == 2 * h[1] + ((2 * h[2]) \div c)
             r2 == (2 * h[2]) % c
             s  == r2 + x
         IN  IF y % 2 = 1 THEN <<q2 + (s \div c), s % c>> ELSE <<q2, r2>>

\* a * b / c rounded toward zero, for a, b >= 0 and c > 0.
MulDiv(a, b, c) == (a \div c) * b + QR(a % c, b, c)[1]

\* a * b / c rounded toward zero, any signs, c # 0.
SMulDiv(a, b, c) == Sgn(a) * Sgn(b) * Sgn(c) * MulDiv(Abs(a), Abs(b), Abs(c))

\* n / unit rounded to the nearest integer, ties to even, for n >= 0.
RoundHalfEven(n, unit) ==
    LET q == n \div unit
        r == n % unit
    IN  IF 2 * r > unit \/ (2 * r = unit /\ q % 2 = 1) THEN q + 1 ELSE q

\* Python's f"{x:.2f}" of the number x = n / scale: the sign it prints and the
\* hundredths it prints ("-0.00" for a small negative number).
Fmt2(n, scale) ==
    [neg |-> n < 0,
     hundredths |-> (Abs(n) \div scale) * Centi
                    + RoundHalfEven((Abs(n) % scale) * Centi, scale)]

\* -------------------------------------------------------------- Pipe
\* Pipe.__init__
Pipe(diameter, length, roughness, start_node, end_node) ==
    [diameter |-> diameter, length |-> length, roughness |-> roughness,
     start_node |-> start_node, end_node |-> end_node, flow_rate |-> 0]

\* np.pi * (self.diameter * inch_to_ft / 2) ** 2, in millionths of ft^2
Area(diameter) ==
    MulDiv(PiMicro, diameter * diameter, (2 * InchPerFt) * (2 * InchPerFt))

\* velocity = self.flow_rate / area
Velocity(p) == SMulDiv(p.flow_rate, Micro, Area(p.diameter))

\* Re = (velocity * self.diameter * inch_to_ft) / mu, in hundredths
Reynolds(p, velocity) ==
    SMulDiv(velocity * p.diameter, Centi * (MuDen \div Micro), InchPerFt * MuNum)

\* a variant of the branch: `if Re <= 2000`
IsLaminarBranch_Inclusive(p, Re) == Re <= ReLaminar * Centi

\* the branch `if Re < 2000`
IsLaminarBranch(p, Re) == Re < ReLaminar * Centi

\* a variant of the selection: the laminar value only for 0 < Re < 2000
FrictionFactor_ZeroGuarded(p, Re) ==
    IF Re # 0 /\ IsLaminarBranch(p, Re)
    THEN {SMulDiv(LaminarNum * Centi, Micro, Re)}
    ELSE {FTurbulent}

\* `f = 64 / Re` or `f = 0.02`: the set {f}, or {} when 64 / Re divides by zero
FrictionFactor(p, Re) ==
    IF IsLaminarBranch(p, Re)
    THEN IF Re = 0 THEN {} ELSE {SMulDiv(LaminarNum * Centi, Micro, Re)}
    ELSE {FTurbulent}

\* head_loss = f * (length * inch_to_ft) / (diameter * inch_to_ft)
\*               * (rho * velocity ** 2) / (2 * g)
HeadLoss(p, f, velocity) ==
    LET t   == SMulDiv(f, p.length, p.diameter)
        v2  == MulDiv(Abs(velocity), Abs(velocity), Micro)
        rv2 == MulDiv(v2, RhoE1, 10 * Milli)
    IN  SMulDiv(t, rv2, 2 * GE1 * Centi)

\* Pipe.calculate_flow_rate: the locals when the call ends, and how it ends
calculate_flow_rate(p) ==
    LET velocity == Velocity(p)
        Re       == Reynolds(p, velocity)
        f        == FrictionFactor(p, Re)
    IN  IF f = {}
        THEN [raised |-> "ZeroDivisionError", velocity |-> {velocity}, Re |-> {Re},
              f |-> {}, head_loss |-> {}, returned |-> {}]
        ELSE LET fv == CHOOSE x \in f : TRUE
                 hl == HeadLoss(p, fv, velocity)
             IN  [raised |-> "", velocity |-> {velocity}, Re |-> {Re},
                  f |-> f, head_loss |-> {hl}, returned |-> {hl}]

\* -------------------------------------------------------------- Node
\* Node.__init__
Node(name) == [name |-> name, pressure |-> DefaultPressure, connected_pipes |-> <<>>]

\* a variant of add_pipe: `self.connected_pipes = [pipe]`
add_pipe_Assigns(node, pipe_name) ==
    [node EXCEPT !.connected_pipes = <<pipe_name>>]

\* Node.add_pipe: a pipe is referred to by its key in PipeNetwork.pipes
add_pipe(node, pipe_name) ==
    [node EXCEPT !.connected_pipes = Append(@, pipe_name)]

\* ------------------------------------------------------- PipeNetwork
Files == {"Ex2_3", "Ex2_3_1"}

\* the node names, in the order of 'abcdefghij'
NodeNames == <<"a", "b", "c", "d", "e", "f", "g", "h", "i", "j">>

\* The string 'x-y', kept as its two parts so that pipe_name.split('-') can be
\* taken: a key of pipe_connections, of the properties table and of self.pipes.
PipeName(x, y) == <<x, y>>

\* self.pipe_connections, in insertion order
pipe_connections ==
    << [name |-> PipeName("a", "b"), start |-> "a", end |-> "b"],
       [name |-> PipeName("a", "h"), start |-> "a", end |-> "h"],
       [name |-> PipeName("b", "c"), start |-> "b", end |-> "c"],
       [name |-> PipeName("b", "e"), start |-> "b", end |-> "e"],
       [name |-> PipeName("c", "d"), start |-> "c", end |-> "d"],
       [name |-> PipeName("c", "f"), start |-> "c", end |-> "f"],
       [name |-> PipeName("d", "g"), start |-> "d", end |-> "g"],
       [name |-> PipeName("e", "f"), start |-> "e", end |-> "f"],
       [name |-> PipeName("e", "i"), start |-> "e", end |-> "i"],
       [name |-> PipeName("f", "g"), start |-> "f", end |-> "g"],
       [name |-> PipeName("g", "j"), start |-> "g", end |-> "j"],
       [name |-> PipeName("h", "i"), start |-> "h", end |-> "i"],
       [name |-> PipeName("i", "j"), start |-> "i", end |-> "j"] >>

\* the table of get_pipe_properties: (diameter in, length in, roughness 1e-5 ft)
properties ==
    [n \in {PipeName("a", "b")} |-> <<18, 1000, 85>>] @@
    [n \in {PipeName("a", "h")} |-> <<24, 1600, 85>>] @@
    [n \in {PipeName("b", "c")} |-> <<18, 500, 85>>] @@
    [n \in {PipeName("b", "e")} |-> <<16, 800, 85>>] @@
    [n \in {PipeName("c", "d")} |-> <<18, 500, 85>>] @@
    [n \in {PipeName("c", "f")} |-> <<16, 800, 85>>] @@
    [n \in {PipeName("d", "g")} |-> <<16, 800, 85>>] @@
    [n \in {PipeName("e", "f")} |-> <<12, 500, 85>>] @@
    [n \in {PipeName("e", "i")} |-> <<18, 800, 300>>] @@
    [n \in {PipeName("f", "g")} |-> <<12, 500, 85>>] @@
    [n \in {PipeName("g", "j")} |-> <<18, 800, 300>>] @@
    [n \in {PipeName("h", "i")} |-> <<24, 1000, 300>>] @@
    [n \in {PipeName("i", "j")} |-> <<24, 1000, 300>>]

\* PipeNetwork.get_pipe_properties: {the tuple}, or {} for a KeyError
get_pipe_properties(pipe_name) ==
    IF pipe_name \in DOMAIN properties THEN {properties[pipe_name]} ELSE {}

\* self.nodes[name]: the position of the node in the dict, 0 for a KeyError
NodeIndex(nodes, name) ==
    IF \E i \in DOMAIN nodes : nodes[i].name = name
    THEN CHOOSE i \in DOMAIN nodes : nodes[i].name = name
    ELSE 0

\* one iteration of the loop `for pipe_name, (start, end) in pipe_connections`
CreatePipe(net, c) ==
    LET si    == NodeIndex(net.nodes, c.start)
        ei    == NodeIndex(net.nodes, c.end)
        props == get_pipe_properties(c.name)
    IN  IF net.raised # "" THEN net
        ELSE IF si = 0 \/ ei = 0 \/ props = {} THEN [net EXCEPT !.raised = "KeyError"]
        ELSE LET pr    == CHOOSE x \in props : TRUE
                 pipe  == Pipe(pr[1], pr[2], pr[3], c.start, c.end) @@ [name |-> c.name]
                 n1    == [net.nodes EXCEPT ![si] = add_pipe(@, c.name)]
                 n2    == [n1 EXCEPT ![ei] = add_pipe(@, c.name)]
             IN  [net EXCEPT !.nodes = n2, !.pipes = Append(@, pipe)]

RECURSIVE CreatePipes(_, _)
CreatePipes(net, i) ==
    IF i > Len(pipe_connections) THEN net
    ELSE CreatePipes(CreatePipe(net, pipe_connections[i]), i + 1)

\* PipeNetwork.__init__: the dicts nodes and pipes as lists in insertion order
\* (a pipe carries its key as `name`), and how the constructor ended
PipeNetwork ==
    CreatePipes([nodes  |-> [i \in DOMAIN NodeNames |-> Node(NodeNames[i])],
                 pipes  |-> <<>>,
                 raised |-> ""], 1)

\* a variant of the assignment: `pipe.length = flow_rate`
SetFlowRate_WrongAttribute(pipe, flow_rate) == [pipe EXCEPT !.length = flow_rate]

\* `pipe.flow_rate = flow_rate`
SetFlowRate(pipe, flow_rate) == [pipe EXCEPT !.flow_rate = flow_rate]

\* PipeNetwork.calculate_flow_rates with draws[i] the i-th value of np.random.uniform
calculate_flow_rates(pipes, draws) ==
    [i \in DOMAIN pipes |-> SetFlowRate(pipes[i], draws[i])]

\* PipeNetwork.print_flow_rates
print_flow_rates(pipes) ==
    [i \in DOMAIN pipes |->
        [section |-> "flow", text |-> "The flow in segment {} is {} (cfs)",
         key |-> pipes[i].name, split |-> <<pipes[i].name[1], pipes[i].name[2]>>,
         raw |-> pipes[i].flow_rate,
         value |-> Fmt2(pipes[i].flow_rate, Micro)]]

\* the pipe a node's connected_pipes entry refers to
PipeOf(pipes, pipe_name) == pipes[CHOOSE i \in DOMAIN pipes : pipes[i].name = pipe_name]

\* a variant of the term: `pipe.flow_rate` whatever the end the node is at
NetFlowTerm_Unsigned(pipe, node) == pipe.flow_rate

\* `pipe.flow_rate if pipe.start_node == node else -pipe.flow_rate`
NetFlowTerm(pipe, node) ==
    IF pipe.start_node = node.name THEN pipe.flow_rate ELSE -pipe.flow_rate

\* sum(... for pipe in node.connected_pipes), from the k-th entry on
RECURSIVE NetFlowFrom(_, _, _)
NetFlowFrom(pipes, node, k) ==
    IF k > Len(node.connected_pipes) THEN 0
    ELSE NetFlowTerm(PipeOf(pipes, node.connected_pipes[k]), node)
         + NetFlowFrom(pipes, node, k + 1)

\* PipeNetwork.check_node_flows
check_node_flows(nodes, pipes) ==
    [i \in DOMAIN nodes |->
        LET net_flow == NetFlowFrom(pipes, nodes[i], 1)
        IN  [section |-> "node_flow", text |-> "net flow into node {} is {} (cfs)",
             key |-> <<nodes[i].name>>, raw |-> net_flow,
             value |-> Fmt2(net_flow, Micro)]]

\* loop_connections of Ex2_3.py
loop_connections_Ex2_3 ==
    << <<"a", "b">>, <<"b", "e">>, <<"e", "i">>, <<"i", "h">>, <<"h", "a">> >>

\* a variant of the list of Ex2_3_1.py: its last pair missing
loop_connections_Ex2_3_1_Short ==
    << <<"a", "b">>, <<"b", "e">>, <<"e", "i">> >>

\* loop_connections of Ex2_3_1.py
loop_connections_Ex2_3_1 ==
    << <<"a", "b">>, <<"b", "e">>, <<"e", "i">>, <<"i", "h">> >>

loop_connections(file) ==
    IF file = "Ex2_3" THEN loop_connections_Ex2_3 ELSE loop_connections_Ex2_3_1

\* chr(65 + i) for i = k - 1
Chr65 == << <<"A">>, <<"B">>, <<"C">>, <<"D">>, <<"E">>, <<"F">>, <<"G">>, <<"H">> >>

\* PipeNetwork.check_loop_head_loss; `path` is the nodes the pressure drop of the
\* line is taken along
check_loop_head_loss(file, nodes) ==
    [k \in DOMAIN loop_connections(file) |->
        LET start_node == nodes[NodeIndex(nodes, loop_connections(file)[k][1])]
            end_node   == nodes[NodeIndex(nodes, loop_connections(file)[k][2])]
            delta_p    == start_node.pressure - end_node.pressure
        IN  [section |-> "loop",
             text |-> IF file = "Ex2_3" THEN "head loss for loop {} is {} (psi)"
                      ELSE "Head loss for loop {} is {} psi.",
             key |-> Chr65[k], path |-> loop_connections(file)[k],
             raw |-> delta_p, value |-> Fmt2(delta_p, 1)]]

\* one line of PipeNetwork.calculate_head_loss, r what pipe.calculate_flow_rate()
\* returned
HeadLossLine(file, pipe, r) ==
    [section |-> "head_loss",
     text |-> IF file = "Ex2_3"
              THEN "head loss in pipe {} (L={} in, d={} in) is {} in of water"
              ELSE "Head loss in pipe {} (Length={} in, Diameter={} in) is {} in of water.",
     key |-> pipe.name, length |-> Fmt2(pipe.length, 1),
     diameter |-> Fmt2(pipe.diameter, 1),
     flow_rate |-> pipe.flow_rate, Re |-> r.Re, f |-> r.f,
     raw |-> CHOOSE x \in r.returned : TRUE,
     value |-> Fmt2(CHOOSE x \in r.returned : TRUE, Micro)]

\* the first call that raises among the calls of pipe.calculate_flow_rate(), in
\* the order of the loop; Len + 1 when none does
FirstRaising(returns) ==
    IF \E i \in DOMAIN returns : returns[i].raised # ""
    THEN CHOOSE i \in DOMAIN returns :
            /\ returns[i].raised # ""
            /\ \A j \in 1..(i - 1) : returns[j].raised = ""
    ELSE Len(returns) + 1

\* PipeNetwork.calculate_head_loss: the lines printed before the loop ends or a
\* call raises, and the exception that ended it
calculate_head_loss(file, pipes) ==
    LET returns == [i \in DOMAIN pipes |-> calculate_flow_rate(pipes[i])]
        stop    == FirstRaising(returns)
    IN  [lines  |-> [i \in 1..(stop - 1) |-> HeadLossLine(file, pipes[i], returns[i])],
         raised |-> IF stop <= Len(pipes) THEN returns[stop].raised ELSE ""]

\* PipeNetwork.calculate_pressures
calculate_pressures(file, nodes) ==
    [i \in DOMAIN nodes |->
        [section |-> "pressure",
         text |-> IF file = "Ex2_3" THEN "Pressure at node {} = {} psi"
                  ELSE "Pressure at node {} = {} psi.",
         key |-> <<nodes[i].name>>, raw |-> nodes[i].pressure,
         value |-> Fmt2(nodes[i].pressure, 1)]]

\* -------------------------------------------------------------- main
\* main() of Ex2_3.py, statement by statement: <<statement, text printed>>
main_Ex2_3 ==
    << <<"PipeNetwork", "">>,
       <<"calculate_flow_rates", "">>,
       <<"print_flow_rates", "">>,
       <<"print", "\nCheck node flows:">>,
       <<"check_node_flows", "">>,
       <<"print", "\nCheck loop head loss:">>,
       <<"check_loop_head_loss", "">>,
       <<"print", "\n">>,
       <<"calculate_head_loss", "">>,
       <<"print", "\n">>,
       <<"calculate_pressures", "">> >>

\* main() of Ex2_3_1.py
main_Ex2_3_1 ==
    << <<"PipeNetwork", "">>,
       <<"calculate_flow_rates", "">>,
       <<"print_flow_rates", "">>,
       <<"print", "\nCheck node flows:">>,
       <<"check_node_flows", "">>,
       <<"print", "\nCheck loop head loss:">>,
       <<"check_loop_head_loss", "">>,
       <<"print", "\nCheck Head loss">>,
       <<"calculate_head_loss", "">>,
       <<"print", "\nCheck Pressure at every node">>,
       <<"calculate_pressures", "">> >>

main(f) == IF f = "Ex2_3" THEN main_Ex2_3 ELSE main_Ex2_3_1

\* ------------------------------------------------------------ inputs
\* Values np.random.uniform(-5, 5) can return, in millionths of a cfs: the low
\* end (included), zero, a laminar flow and a turbulent one (5 itself is excluded).
FlowValues == {-5000000, 0, 20000, 4999999}

\* The draws of one call of calculate_flow_rates are taken among those in which
\* at most MaxVaried consecutive pipes (in the order of the loop) draw a second
\* value and every other pipe draws the first.
MaxVaried == 2

VariedSets ==
    {{}} \cup { s..(s + len - 1) : s \in DOMAIN pipe_connections, len \in 1..MaxVaried }

\* The draws of one call of calculate_flow_rates: one value per pipe, in order.
DrawVectors ==
    { [i \in DOMAIN pipe_connections |-> IF i \in S THEN v ELSE b] :
        S \in VariedSets, b \in FlowValues, v \in FlowValues }

\* A Pipe on its own, between two Node objects, as Pipe.__init__ accepts it.
PipeDiameters == {12, 16, 18, 24}
PipeLengths == {500, 800, 1600}
PipeRoughness == {85, 300}
NodePressures == {60, 80}
\* 32202 and 42936 give Re = 2000.00 at 12 in and at 16 in.
PipeFlows == {-5000000, -20000, 0, 20000, 32201, 32202, 42936, 4999999}

PipeInputs ==
    { Pipe(d, l, r, [Node("a") EXCEPT !.pressure = ps],
                    [Node("b") EXCEPT !.pressure = pe]) :
        d \in PipeDiameters, l \in PipeLengths, r \in PipeRoughness,
        ps \in NodePressures, pe \in {DefaultPressure} }

\* ------------------------------------------------------------- state
VARIABLES
    file,     \* the script that runs: "Ex2_3" or "Ex2_3_1"
    run,      \* 1, 2: the first and the second run of main() on the same draws
    pc,       \* the statement of main() to execute next
    nodes,    \* PipeNetwork.nodes
    pipes,    \* PipeNetwork.pipes
    out,      \* the last operation: its name, the lines it printed, what it raised
    stdout,   \* the lines printed by the run so far
    calls,    \* the operations the run executed, in order
    drawn,    \* the values np.random.uniform returned in the first run
    first,    \* what the first run printed and how it ended
    pipe,     \* a Pipe object on its own
    result    \* the last call of pipe.calculate_flow_rate

vars == <<file, run, pc, nodes, pipes, out, stdout, calls, drawn, first, pipe, result>>

NoOut == [op |-> "", lines |-> <<>>, raised |-> ""]
NoFirst == [file |-> "", stdout |-> <<>>, calls |-> <<>>, raised |-> ""]
NoPipe == Pipe(0, 0, 0, "", "")
NotCalled == [called |-> FALSE]

\* ------------------------------------------- the PipeNetwork operations
Op_calculate_flow_rates(draws) ==
    /\ pipes' = calculate_flow_rates(pipes, draws)
    /\ nodes' = nodes
    /\ out' = [op |-> "calculate_flow_rates", lines |-> <<>>, raised |-> ""]

Op_print_flow_rates ==
    /\ out' = [op |-> "print_flow_rates", lines |-> print_flow_rates(pipes),
               raised |-> ""]
    /\ UNCHANGED <<nodes, pipes>>

Op_check_node_flows ==
    /\ out' = [op |-> "check_node_flows", lines |-> check_node_flows(nodes, pipes),
               raised |-> ""]
    /\ UNCHANGED <<nodes, pipes>>

Op_check_loop_head_loss ==
    /\ out' = [op |-> "check_loop_head_loss",
               lines |-> check_loop_head_loss(file, nodes), raised |-> ""]
    /\ UNCHANGED <<nodes, pipes>>

Op_calculate_head_loss ==
    /\ LET r == calculate_head_loss(file, pipes)
       IN  out' = [op |-> "calculate_head_loss", lines |-> r.lines, raised |-> r.raised]
    /\ UNCHANGED <<nodes, pipes>>

Op_calculate_pressures ==
    /\ out' = [op |-> "calculate_pressures",
               lines |-> calculate_pressures(file, nodes), raised |-> ""]
    /\ UNCHANGED <<nodes, pipes>>

\* -------------------------------------------------- a run of main()
AtStmt(s) ==
    /\ out.raised = ""
    /\ pc \in DOMAIN main(file)
    /\ main(file)[pc][1] = s

\* the statement has executed: an uncaught exception ends the run where it is
Advance ==
    /\ pc' = pc + 1
    /\ stdout' = stdout \o out'.lines
    /\ calls' = Append(calls, out'.op)
    /\ UNCHANGED <<file, run, first, pipe, result>>

Main_PipeNetwork ==
    /\ AtStmt("PipeNetwork")
    /\ LET net == PipeNetwork
       IN  /\ nodes' = net.nodes
           /\ pipes' = net.pipes
           /\ out' = [op |-> "PipeNetwork", lines |-> <<>>, raised |-> net.raised]
    /\ Advance
    /\ UNCHANGED drawn

Main_calculate_flow_rates ==
    /\ AtStmt("calculate_flow_rates")
    /\ run = 1
    /\ \E draws \in DrawVectors :
         /\ Op_calculate_flow_rates(draws)
         /\ drawn' = draws
    /\ Advance

Main_calculate_flow_rates_same_draws ==
    /\ AtStmt("calculate_flow_rates")
    /\ run = 2
    /\ Op_calculate_flow_rates(drawn)
    /\ Advance
    /\ UNCHANGED drawn

Main_print_flow_rates ==
    AtStmt("print_flow_rates") /\ Op_print_flow_rates /\ Advance /\ UNCHANGED drawn

Main_print ==
    /\ AtStmt("print")
    /\ out' = [op |-> "print",
               lines |-> << [section |-> "header", text |-> main(file)[pc][2]] >>,
               raised |-> ""]
    /\ Advance
    /\ UNCHANGED <<nodes, pipes, drawn>>

Main_check_node_flows ==
    AtStmt("check_node_flows") /\ Op_check_node_flows /\ Advance /\ UNCHANGED drawn

Main_check_loop_head_loss ==
    AtStmt("check_loop_head_loss") /\ Op_check_loop_head_loss /\ Advance
    /\ UNCHANGED drawn

Main_calculate_head_loss ==
    AtStmt("calculate_head_loss") /\ Op_calculate_head_loss /\ Advance
    /\ UNCHANGED drawn

Main_calculate_pressures ==
    AtStmt("calculate_pressures") /\ Op_calculate_pressures /\ Advance
    /\ UNCHANGED drawn

\* the run is over: main() returned, or an exception left it
Returned == out.raised = "" /\ pc = Len(main(file)) + 1
Aborted == out.raised # ""
Terminated == Returned \/ Aborted

\* the other script is run with the random generator in the same state
RunOtherFile ==
    /\ Terminated
    /\ run = 1
    /\ run' = 2
    /\ file' = CHOOSE f \in Files : f # file
    /\ first' = [file |-> file, stdout |-> stdout, calls |-> calls,
                 raised |-> out.raised]
    /\ pc' = 1
    /\ nodes' = <<>>
    /\ pipes' = <<>>
    /\ out' = NoOut
    /\ stdout' = <<>>
    /\ calls' = <<>>
    /\ UNCHANGED <<drawn, pipe, result>>

Init ==
    /\ file \in Files
    /\ run = 1
    /\ pc = 1
    /\ nodes = <<>>
    /\ pipes = <<>>
    /\ out = NoOut
    /\ stdout = <<>>
    /\ calls = <<>>
    /\ drawn = <<>>
    /\ first = NoFirst
    /\ pipe = NoPipe
    /\ result = NotCalled

Next ==
    \/ Main_PipeNetwork
    \/ Main_calculate_flow_rates
    \/ Main_calculate_flow_rates_same_draws
    \/ Main_print_flow_rates
    \/ Main_print
    \/ Main_check_node_flows
    \/ Main_check_loop_head_loss
    \/ Main_calculate_head_loss
    \/ Main_calculate_pressures
    \/ RunOtherFile

Spec == Init /\ [][Next]_vars

\* ------------------------------- the operations of a network, in any order
OpsFrame == UNCHANGED <<file, run, pc, stdout, calls, drawn, first, pipe, result>>

Ops_calculate_flow_rates ==
    (\E draws \in DrawVectors : Op_calculate_flow_rates(draws)) /\ OpsFrame

Ops_print_flow_rates == Op_print_flow_rates /\ OpsFrame

Ops_check_node_flows == Op_check_node_flows /\ OpsFrame

Ops_check_loop_head_loss == Op_check_loop_head_loss /\ OpsFrame

Ops_calculate_head_loss == Op_calculate_head_loss /\ OpsFrame

Ops_calculate_pressures == Op_calculate_pressures /\ OpsFrame

InitOps ==
    /\ file \in Files
    /\ run = 0
    /\ pc = 0
    /\ nodes = PipeNetwork.nodes
    /\ pipes = PipeNetwork.pipes
    /\ out = [op |-> "PipeNetwork", lines |-> <<>>, raised |-> PipeNetwork.raised]
    /\ stdout = <<>>
    /\ calls = <<>>
    /\ drawn = <<>>
    /\ first = NoFirst
    /\ pipe = NoPipe
    /\ result = NotCalled

NextOps ==
    \/ Ops_calculate_flow_rates
    \/ Ops_print_flow_rates
    \/ Ops_check_node_flows
    \/ Ops_check_loop_head_loss
    \/ Ops_calculate_head_loss
    \/ Ops_calculate_pressures

SpecOps == InitOps /\ [][NextOps]_vars

\* ----------------------------------------------- a Pipe on its own
PipeFrame == UNCHANGED <<file, run, pc, nodes, pipes, out, stdout, calls, drawn, first>>

\* `pipe.flow_rate = flow_rate`, as calculate_flow_rates assigns it
Pipe_set_flow_rate ==
    /\ \E q \in PipeFlows : pipe' = SetFlowRate(pipe, q)
    /\ result' = NotCalled
    /\ PipeFrame

Pipe_calculate_flow_rate ==
    /\ result' = [called |-> TRUE, self |-> pipe] @@ calculate_flow_rate(pipe)
    /\ pipe' = pipe
    /\ PipeFrame

InitPipe ==
    /\ file \in Files
    /\ run = 0
    /\ pc = 0
    /\ nodes = <<>>
    /\ pipes = <<>>
    /\ out = NoOut
    /\ stdout = <<>>
    /\ calls = <<>>
    /\ drawn = <<>>
    /\ first = NoFirst
    /\ pipe \in PipeInputs
    /\ result = NotCalled

NextPipe == Pipe_set_flow_rate \/ Pipe_calculate_flow_rate

SpecPipe == InitPipe /\ [][NextPipe]_vars

\* ====================================================================
\* Claims
\* ====================================================================
The(S) == CHOOSE x \in S : TRUE

\* C1 (as stated): calculate_flow_rate on a pipe whose flow_rate is zero fails with
\* a division by zero, the Reynolds number is the quantity left undefined, and no
\* head loss is returned.
C1_ZeroFlowLeavesReynoldsUndefined ==
    (result.called /\ result.self.flow_rate = 0) =>
        /\ result.raised = "ZeroDivisionError"
        /\ result.Re = {}
        /\ result.returned = {}

\* C1 (amended): calculate_flow_rate on a pipe whose flow_rate is zero fails with a
\* division by zero in `f = 64 / Re`: velocity and the Reynolds number are both
\* computed, as 0; the friction factor and the head loss are left undefined and
\* nothing is returned.
C1_ZeroFlowDividesByZeroInFrictionFactor ==
    (result.called /\ result.self.flow_rate = 0) =>
        /\ result.raised = "ZeroDivisionError"
        /\ result.velocity = {0}
        /\ result.Re = {0}
        /\ result.f = {}
        /\ result.head_loss = {}
        /\ result.returned = {}

C1_Witness ==
    /\ result.called
    /\ result.self.flow_rate = 0
    /\ result.raised = "ZeroDivisionError"

\* C2: the friction factor is a single two-way selection on Re: 64 / Re exactly
\* when Re < 2000 (which divides by zero only at Re = 0) and 0.02 otherwise,
\* Re = 2000 included; it is the same whatever the pipe's roughness and length and
\* the pressures of its nodes.
C2_FrictionFactorIsTwoWaySelection ==
    result.called =>
        LET Re == The(result.Re)
        IN  /\ result.raised = "" =>
                result.f = IF Re < ReLaminar * Centi
                           THEN {SMulDiv(LaminarNum * Centi, Micro, Re)}
                           ELSE {FTurbulent}
            /\ result.raised # "" => Re = 0
            /\ \A l \in PipeLengths, r \in PipeRoughness, ps \in NodePressures :
                 LET other == [result.self EXCEPT !.length = l, !.roughness = r,
                                                  !.start_node.pressure = ps,
                                                  !.end_node.pressure = ps]
                 IN  calculate_flow_rate(other).f = result.f

C2_Witness ==
    /\ result.called
    /\ result.Re = {ReLaminar * Centi}
    /\ result.f = {FTurbulent}

\* C3: whenever the flow a call of calculate_flow_rates assigned is turbulent
\* (|Re| >= 2000), in either direction, calculate_head_loss uses the friction
\* factor 0.02 for the pipe and prints a non-negative head loss.
C3_TurbulentFlowUsesFixedFactor ==
    out.op = "calculate_head_loss" =>
        \A k \in DOMAIN out.lines :
            Abs(The(out.lines[k].Re)) >= ReLaminar * Centi =>
                /\ out.lines[k].f = {FTurbulent}
                /\ out.lines[k].raw >= 0
                /\ ~out.lines[k].value.neg

\* the fields of a pipe that no operation is meant to change
Static(p) == [p EXCEPT !.flow_rate = 0]

\* C4: across any sequence of PipeNetwork operations the only state that changes
\* is the pipes' flow_rate, and only calculate_flow_rates changes it: every node
\* keeps its pressure of 80 psi and its connected_pipes, every pipe its diameter,
\* length, roughness, start_node and end_node, as constructed.
C4_OnlyFlowRatesChange ==
    /\ nodes = PipeNetwork.nodes
    /\ pipes = PipeNetwork.pipes
    /\ \A i \in DOMAIN nodes : nodes[i].pressure = DefaultPressure
    /\ [][ /\ nodes' = nodes
           /\ DOMAIN pipes' = DOMAIN pipes
           /\ \A i \in DOMAIN pipes : Static(pipes'[i]) = Static(pipes[i])
           /\ pipes' # pipes => out'.op = "calculate_flow_rates" ]_vars

C4_Witness ==
    /\ out.op = "calculate_head_loss"
    /\ out.raised = ""
    /\ \E i, j \in DOMAIN pipes : pipes[i].flow_rate < 0 /\ pipes[j].flow_rate > 0

\* the sum of the flow rates of the pipes, from the k-th on, whose node at the
\* given end ("start_node" or "end_node") is the node named
RECURSIVE SumFlows(_, _, _, _)
SumFlows(ps, k, end, name) ==
    IF k > Len(ps) THEN 0
    ELSE (IF ps[k][end] = name THEN ps[k].flow_rate ELSE 0)
         + SumFlows(ps, k + 1, end, name)

\* the flow that pipes carry to the node, those that end at it, and away from it,
\* those that start at it; a positive flow_rate runs from start_node to end_node
FlowInto(node) == SumFlows(pipes, 1, "end_node", node.name)
FlowOutOf(node) == SumFlows(pipes, 1, "start_node", node.name)

\* C5: check_node_flows reports for every node the net flow into it: the flows of
\* the pipes that end at the node minus the flows of the pipes that start at it.
C5_ReportsNetFlowIntoNode ==
    out.op = "check_node_flows" =>
        \A i \in DOMAIN nodes :
            out.lines[i].raw = FlowInto(nodes[i]) - FlowOutOf(nodes[i])

\* a path of pipes of the network that returns to the node it starts at
IsClosedCycle(path) ==
    /\ Len(path) >= 3
    /\ path[1] = path[Len(path)]
    /\ \A j \in 1..(Len(path) - 1) :
         \E i \in DOMAIN pipes :
            \/ pipes[i].start_node = path[j] /\ pipes[i].end_node = path[j + 1]
            \/ pipes[i].start_node = path[j + 1] /\ pipes[i].end_node = path[j]

\* C6: every line check_loop_head_loss prints for a 'loop X' is the pressure drop
\* along a closed cycle of pipes of the network, and the loops of two lines differ.
C6_LoopLinesAreClosedCycles ==
    out.op = "check_loop_head_loss" =>
        /\ \A k \in DOMAIN out.lines : IsClosedCycle(out.lines[k].path)
        /\ \A k, l \in DOMAIN out.lines :
             k # l => out.lines[k].path # out.lines[l].path

\* the operations of a run of main(), in the order main() is said to call them
MainOrder ==
    <<"PipeNetwork", "calculate_flow_rates", "print_flow_rates", "check_node_flows",
      "check_loop_head_loss", "calculate_head_loss", "calculate_pressures">>

NotPrint(c) == c # "print"
OpsCalled == SelectSeq(calls, NotPrint)

\* C7: a run of main() always reaches its end: no operation raises, the
\* operations run in the fixed order, each at most once, and a run that is over
\* has run them all.
C7_MainAlwaysReachesItsEnd ==
    /\ out.raised = ""
    /\ Len(OpsCalled) <= Len(MainOrder)
    /\ \A k \in DOMAIN OpsCalled : OpsCalled[k] = MainOrder[k]
    /\ Terminated => OpsCalled = MainOrder

\* how many entries of the list are the pipe
RECURSIVE Occurrences(_, _)
Occurrences(list, pipe_name) ==
    IF list = <<>> THEN 0
    ELSE (IF Head(list) = pipe_name THEN 1 ELSE 0) + Occurrences(Tail(list), pipe_name)

\* PipeNetwork() has been executed by the run
Constructed == \E k \in DOMAIN calls : calls[k] = "PipeNetwork"

\* C8: after PipeNetwork.__init__ there are exactly the 10 nodes a..j and 13
\* pipes; each pipe named 'x-y' has start_node x and end_node y, x # y; each pipe
\* is once in the connected_pipes of its start node, once in that of its end node
\* and in no other node's; every name of pipe_connections has an entry in the
\* properties table, so the constructor raises no KeyError.
C8_ObjectGraphIsConsistent ==
    Constructed =>
        /\ \A k \in DOMAIN calls : calls[k] = "PipeNetwork" => k = 1
        /\ (out.op = "PipeNetwork" => out.raised = "")
        /\ Len(nodes) = 10
        /\ \A i \in DOMAIN nodes : nodes[i].name = NodeNames[i]
        /\ \A i, j \in DOMAIN nodes : nodes[i].name = nodes[j].name => i = j
        /\ Len(pipes) = 13
        /\ \A i, j \in DOMAIN pipes : pipes[i].name = pipes[j].name => i = j
        /\ \A i \in DOMAIN pipes :
             /\ pipes[i].name = PipeName(pipes[i].start_node, pipes[i].end_node)
             /\ pipes[i].start_node # pipes[i].end_node
             /\ NodeIndex(nodes, pipes[i].start_node) # 0
             /\ NodeIndex(nodes, pipes[i].end_node) # 0
             /\ \A n \in DOMAIN nodes :
                  Occurrences(nodes[n].connected_pipes, pipes[i].name)
                    = IF nodes[n].name \in {pipes[i].start_node, pipes[i].end_node}
                      THEN 1 ELSE 0
        /\ \A n \in DOMAIN nodes : \A k \in DOMAIN nodes[n].connected_pipes :
             \E i \in DOMAIN pipes : pipes[i].name = nodes[n].connected_pipes[k]
        /\ \A k \in DOMAIN pipe_connections :
             pipe_connections[k].name \in DOMAIN properties

C8_Witness ==
    /\ calls = <<"PipeNetwork">>
    /\ out.raised = ""
    /\ Len(pipes) = 13
    /\ \A i \in DOMAIN pipes : pipes[i].flow_rate = 0

RECURSIVE SumRaw(_, _)
SumRaw(lines, k) ==
    IF k > Len(lines) THEN 0 ELSE lines[k].raw + SumRaw(lines, k + 1)

RECURSIVE SumNetFlows(_)
SumNetFlows(k) ==
    IF k > Len(nodes) THEN 0
    ELSE NetFlowFrom(pipes, nodes[k], 1) + SumNetFlows(k + 1)

\* C9: whatever the flow rates, before or after any number of calls of
\* calculate_flow_rates, the net flows check_node_flows computes sum to zero over
\* the 10 nodes, each being the flows of the pipes that start at the node minus
\* the flows of the pipes that end at it.
C9_NodeFlowsSumToZero ==
    /\ SumNetFlows(1) = 0
    /\ out.op = "check_node_flows" =>
         /\ Len(out.lines) = 10
         /\ SumRaw(out.lines, 1) = 0
         /\ \A i \in DOMAIN nodes :
              out.lines[i].raw = FlowOutOf(nodes[i]) - FlowInto(nodes[i])

\* ... and no single node's net flow need be zero
C9_Witness ==
    /\ out.op = "check_node_flows"
    /\ SumRaw(out.lines, 1) = 0
    /\ \E i, j \in DOMAIN out.lines : out.lines[i].raw > 0 /\ out.lines[j].raw < 0

\* what a run printed, up to the wording: the headers dropped, the text blanked
IsReport(l) == l.section # "header"
Blank(l) == [l EXCEPT !.text = ""]
Reported(printed) ==
    LET ls == SelectSeq(printed, IsReport) IN [k \in DOMAIN ls |-> Blank(ls[k])]

\* what the run of the script printed, of the two runs on the same draws
StdoutOf(f) == IF file = f THEN stdout ELSE first.stdout

\* C10 (as stated): given the same draws, a run of main() of Ex2_3.py and one of
\* Ex2_3_1.py report the same values in the same order, the loop head losses
\* with the same count, labels and values.
C10_SameReports ==
    (run = 2 /\ Terminated) =>
        /\ first.raised = out.raised
        /\ Reported(StdoutOf("Ex2_3")) = Reported(StdoutOf("Ex2_3_1"))

NotLoopE(l) == ~(l.section = "loop" /\ l.key = Chr65[5])
IsLoop(l) == l.section = "loop"

\* C10 (amended): given the same draws, the two runs end the same way and report
\* the same values in the same order, except that Ex2_3.py prints five loop head
\* losses, A to E, and Ex2_3_1.py the first four of them, A to D.
C10_SameReportsButLoopE ==
    (run = 2 /\ Terminated) =>
        /\ first.raised = out.raised
        /\ first.calls = calls
        /\ Len(SelectSeq(StdoutOf("Ex2_3"), IsLoop)) = 5
        /\ Len(SelectSeq(StdoutOf("Ex2_3_1"), IsLoop)) = 4
        /\ SelectSeq(Reported(StdoutOf("Ex2_3")), NotLoopE)
             = Reported(StdoutOf("Ex2_3_1"))

C10_Witness ==
    /\ run = 2
    /\ Returned
    /\ \E k \in DOMAIN stdout : stdout[k].section = "head_loss" /\ stdout[k].value.neg

====
